---------------------------- MODULE Spec2Model ----------------------------
(***************************************************************************)
(* Model of test-discard.c: the tree of discarded extents and the block    *)
(* selector (guess_next_block), the timed discard loop (run_ioctl), the    *)
(* prepare and replay stages (prepare_device, prepare_by_tree, write_data) *)
(* and the sweep over record sizes in main.                                *)
(*                                                                         *)
(* All sizes and offsets are in bytes, block numbers are in units of the   *)
(* record size, times are in seconds (whole seconds are drawn).             *)
(***************************************************************************)
EXTENDS Integers, Sequences, FiniteSets, Bags, TLC

VARIABLES
    pc,              \* position of the program in main / test_step / run_ioctl
    defs,            \* struct definitions: start, record_size, total_size, dev_size, dev_ssize, flags
    rec,             \* struct records: start, end, step (step = 0: no -R given)
    repeat,          \* main: number of sweep iterations
    i,               \* main: sweep loop counter
    err,             \* main: err
    discarded_root,  \* the tree of discarded extents, as its in-order traversal
    allocated,       \* number of malloc'd discarded_entry objects not yet freed
    stats,           \* struct statistics of the running test step
    next_start,      \* run_ioctl: next_start
    next_hop,        \* run_ioctl: next_hop
    stop,            \* the global stop flag
    fd_open,         \* whether defs.fd is open
    exit_status,     \* "running", "EXIT_SUCCESS" or "EXIT_FAILURE"
    returned,        \* history: blocks returned by guess_next_block since the tree was reset
    last,            \* history: outcome of the most recent guess_next_block call
    ranges,          \* history: bag of the ranges {offset, length} discarded by the current step
    lats,            \* history: bag of the latencies measured by the current step
    results,         \* history: the result records printed so far
    steps,           \* history: record sizes of the test steps started so far
    writes,          \* history: write_data calls of the most recent prepare / replay stage
    ndiscards,       \* history: number of BLKDISCARD calls of run_ioctl issued so far
    failed,          \* history: what ndiscards and results were when a discard call failed
    configured,      \* history: the record size the command line gave (-r, or the default)
    trimmed,         \* the device: the granules discarded and not written since
    stale,           \* history: a range was discarded that held a granule already discarded
    wall_time,       \* test_step: time, the wall time around run_ioctl
    nomem,           \* history: the tree and the counts when alloc_and_init failed
    stop_req         \* history: the counts when the stop flag was set from outside

vars == <<pc, defs, rec, repeat, i, err, discarded_root, allocated, stats,
          next_start, next_hop, stop, fd_open, exit_status, returned, last,
          ranges, lats, results, steps, writes, ndiscards, failed, configured,
          trimmed, stale, wall_time, nomem, stop_req>>

---------------------------------------------------------------------------
(* Program constants *)

ENT_SIZE == 4096

DEF_REC_SIZE == 4096

RAND_MAX == 2147483647

INT_MAX == 2147483647

DISCARD2 == 2

RANDOMIO == 4

\* print_results: 1024*1024
MiB == 1048576

IS_DISCARD2(x) == (x \div DISCARD2) % 2 = 1

IS_RANDOMIO(x) == (x \div RANDOMIO) % 2 = 1

---------------------------------------------------------------------------
(* Bounds of the model *)

\* largest device, in units of SizeUnit
MaxDevUnits == 4

\* largest latency of one discard call, in seconds
MaxLat == 2

\* most blocks on a device: dev_size / record_size for the first record size
MaxBlocks == 4

\* largest time spent in the loop of run_ioctl outside the discard calls
MaxOverhead == 1

\* the geometry is drawn in multiples of half an entropy buffer
SizeUnit == ENT_SIZE \div 2

DevSizes == {k * SizeUnit : k \in 1..MaxDevUnits}

RecSizes == {SizeUnit \div 2, SizeUnit, 2 * SizeUnit}

\* the device is tracked in granules of this many bytes
Granule == SizeUnit \div 2

\* the granules of the byte range {off, len}
Granules(off, len) == {g \in (off \div Granule)..((off + len - 1) \div Granule) : len > 0}

\* the granules of a device of dev_size bytes
DeviceGranules(d) == Granules(0, d.dev_size)

Latencies == 1..MaxLat

---------------------------------------------------------------------------
(* The tree of discarded extents.  The tree is kept as the sequence of its *)
(* in-order traversal; the shape of the red-black tree is left open: a     *)
(* descent may meet the entries of a subtree in any order a binary search  *)
(* tree over that traversal allows.                                        *)

Entry(start, count) == [start |-> start, count |-> count]

InsertAt(t, p, e) == SubSeq(t, 1, p - 1) \o <<e>> \o SubSeq(t, p, Len(t))

RemoveAt(t, p) == SubSeq(t, 1, p - 1) \o SubSeq(t, p + 1, Len(t))

\* get_random_block: the values random() % max can take
get_random_block(d) ==
    LET max0 == d.dev_size \div d.record_size
        max  == IF max0 > RAND_MAX THEN RAND_MAX ELSE max0
    IN  0..(max - 1)

\* alloc_and_init: a new entry {block, 1}
alloc_and_init(block) == Entry(block, 1)

\* Mutant of Descend: the search restarts already at an extent that ends at
\* dev_size / record_size.
RECURSIVE DescendRestartsEarly(_, _, _, _, _)
DescendRestartsEarly(t, lo, hi, block, d) ==
    IF lo > hi
    THEN {[kind |-> "insert", pos |-> lo]}
    ELSE UNION {
        LET entry == t[m] IN
        IF block < entry.start
        THEN DescendRestartsEarly(t, lo, m - 1, block, d)
        ELSE IF block > entry.start + entry.count
        THEN DescendRestartsEarly(t, m + 1, hi, block, d)
        ELSE LET end == entry.start + entry.count IN
             IF end >= d.dev_size \div d.record_size
             THEN {[kind |-> "restart", pos |-> m]}
             ELSE {[kind |-> "extend", pos |-> m]}
        : m \in lo..hi }

\* The while (*n) loop of guess_next_block for one value of block: the set
\* of ways the descent can end over the subtree holding positions lo..hi.
\*   "insert"  : fell off the tree; the new node is linked at in-order position pos
\*   "extend"  : block lies in [start, start + count] of the entry at pos
\*   "restart" : as "extend", but that entry ends beyond dev_size / record_size
RECURSIVE Descend(_, _, _, _, _)
Descend(t, lo, hi, block, d) ==
    IF lo > hi
    THEN {[kind |-> "insert", pos |-> lo]}
    ELSE UNION {
        LET entry == t[m] IN
        IF block < entry.start
        THEN Descend(t, lo, m - 1, block, d)
        ELSE IF block > entry.start + entry.count
        THEN Descend(t, m + 1, hi, block, d)
        ELSE LET end == entry.start + entry.count IN
             IF end > d.dev_size \div d.record_size
             THEN {[kind |-> "restart", pos |-> m]}
             ELSE {[kind |-> "extend", pos |-> m]}
        : m \in lo..hi }

\* Mutant of MergeRight: the right neighbour is never merged.
MergeRightNever(t, p) == [tree |-> t, merged |-> FALSE]

\* Mutant of MergeRight: the neighbour is erased but its count is not added.
MergeRightDropsCount(t, p) ==
    IF p < Len(t) /\ t[p + 1].start = t[p].start + t[p].count
    THEN [tree |-> RemoveAt(t, p + 1), merged |-> TRUE]
    ELSE [tree |-> t, merged |-> FALSE]

\* skip_insert: see if the entry at position p can be merged to the right
MergeRight(t, p) ==
    IF p < Len(t) /\ t[p + 1].start = t[p].start + t[p].count
    THEN [tree   |-> RemoveAt([t EXCEPT ![p].count = t[p].count + t[p + 1].count], p + 1),
          merged |-> TRUE]
    ELSE [tree |-> t, merged |-> FALSE]

\* Mutant of Finish: an extent that is extended keeps its count.
FinishKeepsCount(t, o, block, restarts, mallocOk) ==
    IF o.kind = "extend"
    THEN LET end == t[o.pos].start + t[o.pos].count
             m   == MergeRight(t, o.pos)
         IN  [ret |-> end, tree |-> m.tree, restarts |-> restarts,
              merged |-> m.merged, kind |-> "extend", hang |-> FALSE,
              alloc |-> IF m.merged THEN -1 ELSE 0]
    ELSE IF ~mallocOk
    THEN [ret |-> -1, tree |-> t, restarts |-> restarts, merged |-> FALSE,
          kind |-> "nomem", hang |-> FALSE, alloc |-> 0]
    ELSE LET m == MergeRight(InsertAt(t, o.pos, alloc_and_init(block)), o.pos)
         IN  [ret |-> block, tree |-> m.tree, restarts |-> restarts,
              merged |-> m.merged, kind |-> "insert", hang |-> FALSE,
              alloc |-> IF m.merged THEN 0 ELSE 1]

\* Mutant of Finish: when alloc_and_init fails the block is returned all the
\* same, the tree left as it was.
FinishReturnsBlock(t, o, block, restarts, mallocOk) ==
    IF o.kind = "extend"
    THEN LET end == t[o.pos].start + t[o.pos].count
             m   == MergeRight([t EXCEPT ![o.pos].count = t[o.pos].count + 1], o.pos)
         IN  [ret |-> end, tree |-> m.tree, restarts |-> restarts,
              merged |-> m.merged, kind |-> "extend", hang |-> FALSE,
              alloc |-> IF m.merged THEN -1 ELSE 0]
    ELSE IF ~mallocOk
    THEN [ret |-> block, tree |-> t, restarts |-> restarts, merged |-> FALSE,
          kind |-> "nomem", hang |-> FALSE, alloc |-> 0]
    ELSE LET m == MergeRight(InsertAt(t, o.pos, alloc_and_init(block)), o.pos)
         IN  [ret |-> block, tree |-> m.tree, restarts |-> restarts,
              merged |-> m.merged, kind |-> "insert", hang |-> FALSE,
              alloc |-> IF m.merged THEN 0 ELSE 1]

\* What guess_next_block does once the descent for `block` ended as o
\* (o.kind is "insert" or "extend"); restarts counts the restarts before it.
Finish(t, o, block, restarts, mallocOk) ==
    IF o.kind = "extend"
    THEN LET end == t[o.pos].start + t[o.pos].count
             m   == MergeRight([t EXCEPT ![o.pos].count = t[o.pos].count + 1], o.pos)
         IN  [ret |-> end, tree |-> m.tree, restarts |-> restarts,
              merged |-> m.merged, kind |-> "extend", hang |-> FALSE,
              alloc |-> IF m.merged THEN -1 ELSE 0]
    ELSE IF ~mallocOk
    THEN [ret |-> -1, tree |-> t, restarts |-> restarts, merged |-> FALSE,
          kind |-> "nomem", hang |-> FALSE, alloc |-> 0]
    ELSE LET m == MergeRight(InsertAt(t, o.pos, alloc_and_init(block)), o.pos)
         IN  [ret |-> block, tree |-> m.tree, restarts |-> restarts,
              merged |-> m.merged, kind |-> "insert", hang |-> FALSE,
              alloc |-> IF m.merged THEN 0 ELSE 1]

\* The loop that never ends: after a restart block is 0 and the tree is
\* unchanged, so a second restart repeats for ever.
Hang(t) == [ret |-> -1, tree |-> t, restarts |-> 2, merged |-> FALSE,
            kind |-> "hang", hang |-> TRUE, alloc |-> 0]

\* Mutant of guess_next_block: the restart does not set block to 0, so the
\* same descent repeats for ever.
guess_next_block_no_reset(t, d, cand, mallocOk) ==
    UNION {
        IF o.kind # "restart"
        THEN {Finish(t, o, cand, 0, mallocOk)}
        ELSE {Hang(t)}
        : o \in Descend(t, 1, Len(t), cand, d) }

\* guess_next_block with candidate cand drawn by get_random_block: the set
\* of its outcomes (one per way the descents can go).
guess_next_block(t, d, cand, mallocOk) ==
    UNION {
        IF o.kind # "restart"
        THEN {Finish(t, o, cand, 0, mallocOk)}
        ELSE UNION {
            IF o2.kind # "restart"
            THEN {Finish(t, o2, 0, 1, mallocOk)}
            ELSE {Hang(t)}
            : o2 \in Descend(t, 1, Len(t), 0, d) }
        : o \in Descend(t, 1, Len(t), cand, d) }

\* The blocks the tree covers
Covered(t) == UNION {t[k].start..(t[k].start + t[k].count - 1) : k \in 1..Len(t)}

RECURSIVE SumCounts(_)
SumCounts(t) == IF t = <<>> THEN 0 ELSE Head(t).count + SumCounts(Tail(t))

NoWrites == [stage |-> "none", calls |-> <<>>]

NoCall == [block |-> -1, restarts |-> 0, merged |-> FALSE, kind |-> "none"]

Call(o) == [block |-> o.ret, restarts |-> o.restarts, merged |-> o.merged, kind |-> o.kind]

---------------------------------------------------------------------------
(* Writing to the device *)

\* write(fd, entropy, ENT_SIZE) at byte offset pos of a block device of
\* d.dev_size bytes: the return value and errno.  A write at or beyond the
\* end of the device fails with ENOSPC, a write across the end is a short
\* write, and any write may fail for another reason: with EIO, or with
\* ENOSPC when the device has no space left for the data (fault).
write(d, pos, fault) ==
    IF fault = "EIO" THEN [ret |-> -1, errno |-> "EIO"]
    ELSE IF fault = "ENOSPC" \/ pos >= d.dev_size THEN [ret |-> -1, errno |-> "ENOSPC"]
    ELSE IF pos + ENT_SIZE > d.dev_size THEN [ret |-> d.dev_size - pos, errno |-> "none"]
    ELSE [ret |-> ENT_SIZE, errno |-> "none"]

\* The while (total) loop of write_data: total chunks are still to be
\* written at offset pos, bytes have been written; fault: how the next
\* write fails ("none": it does not).
RECURSIVE write_data_loop(_, _, _, _, _)
write_data_loop(d, pos, total, bytes, fault) ==
    IF total = 0
    THEN [ret |-> 0, bytes |-> bytes]
    ELSE LET step == write(d, pos, fault) IN
         IF step.ret = -1
         THEN IF step.errno = "ENOSPC"
              THEN write_data_loop(d, pos, total - 1, bytes, "none")
              ELSE [ret |-> -1, bytes |-> bytes]
         ELSE IF step.ret < ENT_SIZE
         THEN [ret |-> -1, bytes |-> bytes + step.ret]
         ELSE write_data_loop(d, pos + step.ret, total - 1, bytes + step.ret, "none")

\* (int64_t)((size / (double)ENT_SIZE) + 0.5)
Chunks(size) == (2 * size + ENT_SIZE) \div (2 * ENT_SIZE)

\* write_data(fd, start, size): the call as logged, with its return value
\* and the number of bytes it wrote from offset start on
write_data(d, start, size, fault) ==
    LET r == write_data_loop(d, start, Chunks(size), 0, fault)
    IN  [start |-> start, size |-> size, bytes |-> r.bytes, ret |-> r.ret]

\* prepare_device: the definitions it leaves and the write_data call it makes
prepare_device(d, fault) ==
    LET d1    == IF IS_RANDOMIO(d.flags) THEN [d EXCEPT !.start = 0] ELSE d
        total == IF IS_RANDOMIO(d.flags) THEN d.dev_size ELSE d.total_size
    IN  [defs |-> d1, call |-> write_data(d1, d1.start, total, fault)]

\* The for loop of prepare_by_tree from entry k on; prev is the position of
\* the previous entry (0: none), log the write_data calls made so far, and
\* the first write for entry number bad fails with fault (0: none does).
\* crit: crit_err() ended the process; otherwise ret is the return value.
RECURSIVE prepare_by_tree_loop(_, _, _, _, _, _, _)
prepare_by_tree_loop(t, d, k, prev, log, bad, fault) ==
    IF k > Len(t)
    THEN [ret |-> 0, crit |-> FALSE, writes |-> log]
    ELSE LET entry == t[k]
             total == entry.count * d.record_size
         IN  IF total = 0
             THEN [ret |-> -1, crit |-> TRUE, writes |-> log]
             ELSE IF prev # 0 /\ t[prev].start + t[prev].count >= entry.start
             THEN [ret |-> -1, crit |-> TRUE, writes |-> log]
             ELSE LET w == write_data(d, entry.start * d.record_size, total,
                                      IF bad = k THEN fault ELSE "none")
                  IN  IF w.ret = -1
                      THEN [ret |-> -1, crit |-> FALSE, writes |-> Append(log, w)]
                      ELSE prepare_by_tree_loop(t, d, k + 1, k, Append(log, w), bad, fault)

prepare_by_tree(t, d, bad, fault) == prepare_by_tree_loop(t, d, 1, 0, <<>>, bad, fault)

\* the ways a write to the device fails
WriteFaults == {"EIO", "ENOSPC"}

\* the granules a logged write_data call has written
Written(w) == Granules(w.start, w.bytes)

---------------------------------------------------------------------------
(* main *)

Flags == {0, DISCARD2, RANDOMIO, DISCARD2 + RANDOMIO}

Starts == {k * SizeUnit : k \in 0..2}

Totals == {k * (SizeUnit \div 2) : k \in 1..(2 * MaxDevUnits)}

\* get_range: the record ranges it accepts
Ranges ==
    {r \in [start : RecSizes, end : {k * SizeUnit : k \in 2..3},
             step : {SizeUnit, 2 * SizeUnit}] :
        ~ (r.start > r.end \/ r.start + r.step > r.end \/ r.step = 0)}

\* rec when no -R is given: rec.step = 0, rec.start and rec.end are not set
NoRange == [start |-> 0, end |-> 0, step |-> 0]

\* the values a read of rec.start yields: what get_range stored, or, when no
\* -R was given, whatever the stack held
ReadRecStart == IF rec.step = 0 THEN {0, SizeUnit} ELSE {rec.start}

\* the command lines on small devices: the first record size of the run
\* cuts the device into at most MaxBlocks blocks (with -R, -r is left at its
\* default: main overwrites the record size with rec.start)
SmallRuns ==
    {a \in [defs : [start : Starts, record_size : RecSizes \cup {DEF_REC_SIZE},
                    total_size : Totals, dev_size : DevSizes, dev_ssize : {512},
                    flags : Flags],
            rec  : Ranges \cup {NoRange}] :
        /\ a.rec # NoRange => a.defs.record_size = DEF_REC_SIZE
        /\ a.defs.dev_size \div (IF a.rec = NoRange THEN a.defs.record_size
                                  ELSE a.rec.start) <= MaxBlocks}

\* the command lines on a device of two megabytes, with records of one and
\* DISCARD2 set (the device is never written)
LargeRuns ==
    [defs : [start : {0}, record_size : {MiB}, total_size : {MiB, 2 * MiB},
             dev_size : {2 * MiB}, dev_ssize : {512},
             flags : {f \in Flags : IS_DISCARD2(f)}],
     rec  : {NoRange}]

\* main after getopt and open_device, before check_sanity
Init ==
    /\ pc = "check_sanity"
    /\ \E a \in SmallRuns \cup LargeRuns : defs = a.defs /\ rec = a.rec
    /\ trimmed = {} /\ stale = FALSE /\ wall_time = 0
    /\ nomem = <<>> /\ stop_req = <<>>
    /\ repeat = 1 /\ i = 1 /\ err = 0
    /\ discarded_root = <<>>
    /\ allocated = 0
    /\ stats = [min |-> INT_MAX, max |-> 0, sum |-> 0, count |-> 0]
    /\ next_start = 0 /\ next_hop = 0 /\ stop = 0
    /\ fd_open = TRUE /\ exit_status = "running"
    /\ returned = {} /\ last = NoCall
    /\ ranges = EmptyBag /\ lats = EmptyBag
    /\ results = <<>> /\ steps = <<>> /\ writes = NoWrites
    /\ ndiscards = 0 /\ failed = <<>>
    /\ configured = defs.record_size

\* check_sanity, and main's exit when it fails
check_sanity(d) ==
    IF d.total_size % d.dev_ssize # 0 THEN -1
    ELSE IF d.record_size % d.dev_ssize # 0 THEN -1
    ELSE IF d.start % d.dev_ssize # 0 THEN -1
    ELSE IF d.start + d.total_size > d.dev_size THEN -1
    ELSE 0

CheckSanity ==
    /\ pc = "check_sanity"
    /\ IF check_sanity(defs) = -1
       THEN /\ fd_open' = FALSE
            /\ exit_status' = "EXIT_FAILURE"
            /\ pc' = "exit"
       ELSE /\ pc' = "initial_discard"
            /\ UNCHANGED <<fd_open, exit_status>>
    /\ UNCHANGED <<configured, defs, rec, repeat, i, err, discarded_root, allocated, stats,
                   next_start, next_hop, stop, returned, last, ranges, lats,
                   results, steps, writes, ndiscards, failed,
                   trimmed, stale, wall_time, nomem, stop_req>>

\* Mutant of SweepRepeat: the last record size of the range is left out.
SweepRepeatShort(r) == IF r.step = 0 THEN 1 ELSE (r.end - r.start) \div r.step

\* main: the number of sweep iterations
SweepRepeat(r) == IF r.step = 0 THEN 1 ELSE ((r.end - r.start) \div r.step) + 1

\* discard_whole_device, then the sweep plan (repeat and the first record size)
InitialDiscard ==
    /\ pc = "initial_discard"
    /\ \E ok \in BOOLEAN :
          IF ~ok
          THEN /\ fd_open' = FALSE
               /\ exit_status' = "EXIT_FAILURE"
               /\ pc' = "exit"
               /\ UNCHANGED <<defs, repeat, i, err, trimmed>>
          ELSE /\ trimmed' = DeviceGranules(defs)
               /\ repeat' = SweepRepeat(rec)
               /\ defs' = IF rec.step = 0 THEN defs
                          ELSE [defs EXCEPT !.record_size = rec.start]
               /\ err' = 0
               /\ i' = 1
               /\ pc' = "sweep"
               /\ UNCHANGED <<fd_open, exit_status>>
    /\ UNCHANGED <<configured, rec, discarded_root, allocated, stats, next_start, next_hop,
                   stop, returned, last, ranges, lats, results, steps, writes,
                   ndiscards, failed, stale, wall_time, nomem, stop_req>>

\* total_size rounded to a multiple of record_size:
\* (unsigned long long)((total_size / (double)record_size) + 0.5) * record_size
RoundTotal(d) == ((2 * d.total_size + d.record_size) \div (2 * d.record_size)) * d.record_size

\* the boundary check of the sweep loop
ClampTotal(d) == IF d.start + d.total_size > d.dev_size THEN d.dev_size ELSE d.total_size

\* The head of one sweep iteration: rounding and clamping of total_size,
\* prepare_device, and the reset of the tree in random IO mode.
SweepIteration ==
    /\ pc = "sweep"
    /\ i <= repeat
    /\ LET d1 == [defs EXCEPT !.total_size = RoundTotal(defs)]
           d2 == [d1 EXCEPT !.total_size = ClampTotal(d1)]
       IN  IF ~IS_DISCARD2(d2.flags) /\ (~IS_RANDOMIO(d2.flags) \/ i = 1)
           THEN \E fault \in {"none"} \cup WriteFaults :
                  LET p == prepare_device(d2, fault) IN
                  /\ defs' = p.defs
                  /\ writes' = [stage |-> "prepare_device", calls |-> <<p.call>>]
                  /\ trimmed' = trimmed \ Written(p.call)
                  /\ IF p.call.ret = -1
                     THEN /\ err' = -1
                          /\ pc' = "cleanup"
                          /\ UNCHANGED <<discarded_root, returned>>
                     ELSE /\ err' = p.call.ret
                          /\ pc' = "test_step"
                          /\ IF IS_RANDOMIO(d2.flags)
                             THEN discarded_root' = <<>> /\ returned' = {}
                             ELSE UNCHANGED <<discarded_root, returned>>
           ELSE /\ defs' = d2
                /\ writes' = NoWrites
                /\ trimmed' = trimmed
                /\ pc' = "test_step"
                /\ err' = err
                /\ IF IS_RANDOMIO(d2.flags)
                   THEN discarded_root' = <<>> /\ returned' = {}
                   ELSE UNCHANGED <<discarded_root, returned>>
    /\ UNCHANGED <<configured, rec, repeat, i, allocated, stats, next_start, next_hop, stop,
                   fd_open, exit_status, last, ranges, lats, results, steps,
                   ndiscards, failed, stale, wall_time, nomem, stop_req>>

\* Mutant of Fold: min is only looked at when max did not change.
FoldElseIf(st, time) ==
    [max   |-> IF time > st.max THEN time ELSE st.max,
     min   |-> IF ~(time > st.max) /\ time < st.min THEN time ELSE st.min,
     sum   |-> st.sum + time,
     count |-> st.count + 1]

\* run_ioctl, "collect some statistics"
Fold(st, time) ==
    [max   |-> IF time > st.max THEN time ELSE st.max,
     min   |-> IF time < st.min THEN time ELSE st.min,
     sum   |-> st.sum + time,
     count |-> st.count + 1]

\* test_step, "initialize statistic structure"
FreshStats == [min |-> INT_MAX, max |-> 0, sum |-> 0, count |-> 0]

\* a quotient of doubles, kept as the fraction it is
Quot(num, den) == [num |-> num, den |-> den]

\* print_results: the record printed for a step
print_results(d, st) ==
    [record_size |-> d.record_size,
     total_size  |-> d.total_size,
     min         |-> st.min,
     max         |-> st.max,
     avg         |-> Quot(st.sum, st.count),
     count       |-> st.count,
     sum         |-> st.sum,
     throughput  |-> Quot(d.total_size \div MiB, st.sum)]

\* The start of test_step and of run_ioctl: fresh statistics, the first
\* gettimeofday, the sanity check of run_ioctl and the set-up of its loop.
TestStepBegin ==
    /\ pc = "test_step"
    /\ stats' = FreshStats
    /\ ranges' = EmptyBag
    /\ lats' = EmptyBag
    /\ \E tod \in BOOLEAN :
          IF ~tod
          THEN \* gettimeofday failed: test_step returns -1
               /\ err' = -1
               /\ pc' = "cleanup"
               /\ UNCHANGED <<steps, next_start, next_hop, stop>>
          ELSE /\ steps' = Append(steps, defs.record_size)
               /\ IF defs.record_size < 1 \/ defs.total_size < defs.record_size
                  THEN \* "Insane boundaries": run_ioctl returns 1
                       /\ err' = -1
                       /\ pc' = "cleanup"
                       /\ UNCHANGED <<next_start, next_hop, stop>>
                  ELSE /\ next_start' = defs.start
                       /\ next_hop' = defs.start + defs.record_size
                       /\ stop' = 0
                       /\ pc' = "ioctl_loop"
                       /\ err' = err
    /\ UNCHANGED <<configured, defs, rec, repeat, i, discarded_root, allocated, fd_open,
                   exit_status, returned, last, results, writes, ndiscards, failed,
                   trimmed, stale, wall_time, nomem, stop_req>>

\* The range run_ioctl picks in one pass of its loop: in random IO mode the
\* outcomes of guess_next_block and the range made of the block, else the
\* next record.
Selections ==
    IF IS_RANDOMIO(defs.flags)
    THEN { [o   |-> o,
            off |-> o.ret * defs.record_size,
            len |-> IF o.ret * defs.record_size + defs.record_size > defs.dev_size
                    THEN defs.dev_size - o.ret * defs.record_size
                    ELSE defs.record_size] :
           o \in UNION { guess_next_block(discarded_root, defs, cand, ok) :
                         cand \in get_random_block(defs), ok \in BOOLEAN } }
    ELSE { [o   |-> [ret |-> 0, tree |-> discarded_root, restarts |-> 0,
                     merged |-> FALSE, kind |-> "sequential", hang |-> FALSE,
                     alloc |-> 0],
            off |-> next_start,
            len |-> defs.record_size] }

\* Mutant of LastHop: the record that ends at the limit is not the last.
LastHopStrict(hop, lim) == hop > lim

\* run_ioctl, "if (next_hop >= total_size + start)": this pass is the last
LastHop(hop, lim) == hop >= lim

\* One pass of the ioctl loop of run_ioctl.
IoctlLoop ==
    /\ pc = "ioctl_loop"
    /\ stop = 0
    /\ LET lim == defs.total_size + defs.start
           hop == IF LastHop(next_hop, lim) THEN lim ELSE next_hop
       IN
       /\ stop' = IF LastHop(next_hop, lim) THEN 1 ELSE stop
       /\ \E s \in Selections :
          /\ last' = IF IS_RANDOMIO(defs.flags) THEN Call(s.o) ELSE last
          /\ nomem' = IF s.o.kind = "nomem"
                      THEN <<[tree      |-> discarded_root,
                              ndiscards |-> ndiscards,
                              results   |-> Len(results)]>>
                      ELSE nomem
          /\ IF s.o.hang
             THEN \* guess_next_block never returns
                  /\ pc' = "hang"
                  /\ UNCHANGED <<err, discarded_root, allocated, returned, stats,
                                 next_start, next_hop, ranges, lats, ndiscards, failed,
                                 trimmed, stale>>
             ELSE IF s.o.ret = -1
             THEN \* guess_next_block failed: run_ioctl returns 1
                  /\ err' = -1
                  /\ pc' = "cleanup"
                  /\ UNCHANGED <<discarded_root, allocated, returned, stats,
                                 next_start, next_hop, ranges, lats, ndiscards, failed,
                                 trimmed, stale>>
             ELSE
                /\ discarded_root' = s.o.tree
                /\ allocated' = allocated + s.o.alloc
                /\ returned' = IF IS_RANDOMIO(defs.flags)
                               THEN returned \cup {s.o.ret} ELSE returned
                /\ \E fault \in {"none", "gettimeofday_start", "ioctl", "gettimeofday_stop"} :
                   IF fault = "gettimeofday_start"
                   THEN /\ err' = -1
                        /\ pc' = "cleanup"
                        /\ UNCHANGED <<stats, next_start, next_hop, ranges, lats,
                                       ndiscards, failed, trimmed, stale>>
                   ELSE
                      /\ ndiscards' = ndiscards + 1
                      /\ ranges' = ranges (+) SetToBag({[off |-> s.off, len |-> s.len]})
                      /\ IF fault = "ioctl"
                         THEN /\ failed' = <<[ndiscards |-> ndiscards + 1,
                                              results   |-> Len(results),
                                              steps     |-> Len(steps)]>>
                              /\ err' = -1
                              /\ pc' = "cleanup"
                              /\ UNCHANGED <<stats, next_start, next_hop, lats,
                                             trimmed, stale>>
                         ELSE \* the device has discarded the range
                              /\ trimmed' = trimmed \cup
                                     (Granules(s.off, s.len) \cap DeviceGranules(defs))
                              /\ stale' = (stale \/ Granules(s.off, s.len) \cap trimmed # {})
                              /\ IF fault = "gettimeofday_stop"
                                 THEN /\ err' = -1
                                      /\ pc' = "cleanup"
                                      /\ UNCHANGED <<stats, next_start, next_hop, lats, failed>>
                                 ELSE \E time \in Latencies :
                                      /\ stats' = Fold(stats, time)
                                      /\ lats' = lats (+) SetToBag({time})
                                      /\ next_start' = hop
                                      /\ next_hop' = hop + defs.record_size
                                      /\ pc' = pc
                                      /\ UNCHANGED <<err, failed>>
    /\ UNCHANGED <<configured, defs, rec, repeat, i, fd_open, exit_status, results, steps,
                   writes, wall_time, stop_req>>

\* while (!stop) ends the loop: run_ioctl returns 0
IoctlLoopExit ==
    /\ pc = "ioctl_loop"
    /\ stop # 0
    /\ pc' = "report"
    /\ UNCHANGED <<configured, defs, rec, repeat, i, err, discarded_root, allocated, stats,
                   next_start, next_hop, stop, fd_open, exit_status, returned, last,
                   ranges, lats, results, steps, writes, ndiscards, failed,
                   trimmed, stale, wall_time, nomem, stop_req>>

\* The end of test_step after run_ioctl returned 0: the second gettimeofday,
\* the wall time between the two (the discard calls and what the loop spent
\* around them) and print_results.
Report ==
    /\ pc = "report"
    /\ \E tod \in BOOLEAN :
          IF ~tod
          THEN /\ err' = -1
               /\ pc' = "cleanup"
               /\ UNCHANGED <<results, wall_time>>
          ELSE /\ \E overhead \in 0..MaxOverhead : wall_time' = stats.sum + overhead
               /\ results' = Append(results, print_results(defs, stats))
               /\ err' = 0
               /\ pc' = "replay"
    /\ UNCHANGED <<configured, defs, rec, repeat, i, discarded_root, allocated, stats,
                   next_start, next_hop, stop, fd_open, exit_status, returned, last,
                   ranges, lats, steps, writes, ndiscards, failed,
                   trimmed, stale, nomem, stop_req>>

\* free_tree: every entry of the tree is erased and freed
free_tree ==
    /\ discarded_root' = <<>>
    /\ allocated' = allocated - Len(discarded_root)

\* The tail of one sweep iteration, test_step having returned 0:
\* prepare_by_tree in random IO mode unless DISCARD2 is set, then the next
\* record size and i++.
Replay ==
    /\ pc = "replay"
    /\ wall_time' = 0
    /\ IF ~IS_DISCARD2(defs.flags) /\ IS_RANDOMIO(defs.flags) /\ i <= repeat
       THEN \E bad \in 0..Len(discarded_root), fault \in WriteFaults :
              LET r == prepare_by_tree(discarded_root, defs, bad, fault) IN
              /\ writes' = [stage |-> "prepare_by_tree", calls |-> r.writes]
              /\ trimmed' = trimmed \ UNION {Written(r.writes[k]) : k \in 1..Len(r.writes)}
              /\ IF r.crit
                 THEN \* crit_err: free_tree and exit(EXIT_FAILURE)
                      /\ free_tree
                      /\ exit_status' = "EXIT_FAILURE"
                      /\ pc' = "exit"
                      /\ UNCHANGED <<defs, i, err>>
                 ELSE IF r.ret = -1
                 THEN /\ err' = -1
                      /\ pc' = "cleanup"
                      /\ UNCHANGED <<defs, i, discarded_root, allocated, exit_status>>
                 ELSE /\ err' = r.ret
                      /\ \E rs \in ReadRecStart :
                            defs' = [defs EXCEPT !.record_size = rs + rec.step * i]
                      /\ i' = i + 1
                      /\ pc' = "sweep"
                      /\ UNCHANGED <<discarded_root, allocated, exit_status>>
       ELSE /\ \E rs \in ReadRecStart :
                  defs' = [defs EXCEPT !.record_size = rs + rec.step * i]
            /\ i' = i + 1
            /\ pc' = "sweep"
            /\ UNCHANGED <<err, discarded_root, allocated, exit_status, writes, trimmed>>
    /\ UNCHANGED <<configured, rec, repeat, stats, next_start, next_hop, stop, fd_open,
                   returned, last, ranges, lats, results, steps, ndiscards, failed,
                   stale, nomem, stop_req>>

\* Mutant of ExitStatus: a failed step does not make the process fail.
ExitStatusIgnoresErr(closed, e) == IF ~closed THEN "EXIT_FAILURE" ELSE "EXIT_SUCCESS"

\* main: the return value after close
ExitStatus(closed, e) == IF ~closed \/ e = -1 THEN "EXIT_FAILURE" ELSE "EXIT_SUCCESS"

\* After the sweep loop (ended or left by break): free_tree, close and the
\* exit status.  The descriptor is released even when close reports an error.
Cleanup ==
    /\ \/ pc = "cleanup"
       \/ pc = "sweep" /\ i > repeat
    /\ free_tree
    /\ fd_open' = FALSE
    /\ \E closed \in BOOLEAN :
          exit_status' = ExitStatus(closed, err)
    /\ pc' = "exit"
    /\ UNCHANGED <<configured, defs, rec, repeat, i, err, stats, next_start, next_hop, stop,
                   returned, last, ranges, lats, results, steps, writes, ndiscards,
                   failed, trimmed, stale, wall_time, nomem, stop_req>>

Next ==
    \/ CheckSanity
    \/ InitialDiscard
    \/ SweepIteration
    \/ TestStepBegin
    \/ IoctlLoop
    \/ IoctlLoopExit
    \/ Report
    \/ Replay
    \/ Cleanup

Spec == Init /\ [][Next]_vars

---------------------------------------------------------------------------
(* The run with the stop flag set from outside.  stop is a global that any *)
(* code outside run_ioctl may write; the program itself installs no signal *)
(* handler that does.  The flag is set once, between two passes of the     *)
(* ioctl loop.                                                             *)

ExternalStop ==
    /\ pc = "ioctl_loop"
    /\ stop_req = <<>>
    /\ stop' = 1
    /\ stop_req' = <<[ndiscards |-> ndiscards, steps |-> Len(steps)]>>
    /\ UNCHANGED <<pc, configured, defs, rec, repeat, i, err, discarded_root, allocated,
                   stats, next_start, next_hop, fd_open, exit_status, returned, last,
                   ranges, lats, results, steps, writes, ndiscards, failed,
                   trimmed, stale, wall_time, nomem>>

StopNext ==
    \/ Next
    \/ ExternalStop

StopSpec == Init /\ [][StopNext]_vars

---------------------------------------------------------------------------
(* The runs in random IO mode, on the devices of Spec and on devices whose *)
(* size is not a multiple of the record size, where the last block of the  *)
(* device is a partial one.                                                *)

OddDevSizes == {(2 * k + 1) * (SizeUnit \div 2) : k \in 1..(MaxDevUnits \div 2)}

\* the command lines with RANDOMIO set
RandomRuns ==
    {a \in [defs : [start : Starts, record_size : RecSizes \cup {DEF_REC_SIZE},
                    total_size : Totals, dev_size : DevSizes \cup OddDevSizes,
                    dev_ssize : {512}, flags : {f \in Flags : IS_RANDOMIO(f)}],
            rec  : Ranges \cup {NoRange}] :
        /\ a.rec # NoRange => a.defs.record_size = DEF_REC_SIZE
        /\ a.defs.dev_size \div (IF a.rec = NoRange THEN a.defs.record_size
                                  ELSE a.rec.start) <= MaxBlocks}

\* main after getopt and open_device, before check_sanity
RandomInit ==
    /\ pc = "check_sanity"
    /\ \E a \in RandomRuns : defs = a.defs /\ rec = a.rec
    /\ trimmed = {} /\ stale = FALSE /\ wall_time = 0
    /\ nomem = <<>> /\ stop_req = <<>>
    /\ repeat = 1 /\ i = 1 /\ err = 0
    /\ discarded_root = <<>>
    /\ allocated = 0
    /\ stats = FreshStats
    /\ next_start = 0 /\ next_hop = 0 /\ stop = 0
    /\ fd_open = TRUE /\ exit_status = "running"
    /\ returned = {} /\ last = NoCall
    /\ ranges = EmptyBag /\ lats = EmptyBag
    /\ results = <<>> /\ steps = <<>> /\ writes = NoWrites
    /\ ndiscards = 0 /\ failed = <<>>
    /\ configured = defs.record_size

RandomSpec == RandomInit /\ [][Next]_vars

---------------------------------------------------------------------------
(* prepare_by_tree on any tree: main from the end of the first test step   *)
(* of a sweep in random IO mode, with a tree of entries that need not be   *)
(* one guess_next_block builds.                                            *)

\* the trees of at most three entries
Ledgers ==
    LET E == [start : 0..3, count : 0..2]
    IN  {<<>>} \cup {<<a>> : a \in E} \cup {<<a, b>> : a \in E, b \in E}
        \cup {<<a, b, c>> : a \in E, b \in E, c \in E}

ReplayInit ==
    /\ pc = "replay"
    /\ \E r \in Ranges, ds \in DevSizes :
          /\ rec = r
          /\ repeat = SweepRepeat(r)
          /\ defs = [start |-> 0, record_size |-> r.start, total_size |-> ds,
                     dev_size |-> ds, dev_ssize |-> 512, flags |-> RANDOMIO]
          /\ ds \div r.start <= MaxBlocks
          /\ configured = DEF_REC_SIZE
    /\ discarded_root \in Ledgers
    /\ allocated = Len(discarded_root)
    /\ i = 1 /\ err = 0
    /\ stats = FreshStats
    /\ next_start = 0 /\ next_hop = 0 /\ stop = 1
    /\ fd_open = TRUE /\ exit_status = "running"
    /\ returned = {} /\ last = NoCall
    /\ ranges = EmptyBag /\ lats = EmptyBag
    /\ results = <<>> /\ steps = <<>> /\ writes = NoWrites
    /\ ndiscards = 0 /\ failed = <<>>
    /\ trimmed = {} /\ stale = FALSE /\ wall_time = 0
    /\ nomem = <<>> /\ stop_req = <<>>

ReplayNext ==
    \/ Replay
    \/ SweepIteration
    \/ TestStepBegin
    \/ IoctlLoop
    \/ IoctlLoopExit
    \/ Report
    \/ Cleanup

ReplaySpec == ReplayInit /\ [][ReplayNext]_vars

---------------------------------------------------------------------------
(* The block selector on its own: guess_next_block called again and again  *)
(* on one tree, for a device of dev_size bytes and one record size.        *)

Idle == /\ rec = [start |-> 0, end |-> 0, step |-> 0]
        /\ repeat = 1 /\ i = 1 /\ err = 0
        /\ stats = [min |-> INT_MAX, max |-> 0, sum |-> 0, count |-> 0]
        /\ next_start = 0 /\ next_hop = 0 /\ stop = 0
        /\ fd_open = TRUE /\ exit_status = "running"
        /\ ranges = EmptyBag /\ lats = EmptyBag
        /\ results = <<>> /\ steps = <<>> /\ writes = NoWrites
        /\ ndiscards = 0 /\ failed = <<>>
        /\ configured = defs.record_size
        /\ trimmed = {} /\ stale = FALSE /\ wall_time = 0
        /\ nomem = <<>> /\ stop_req = <<>>

SelInit ==
    /\ pc = "selector"
    /\ \E ds \in DevSizes \cup {(MaxDevUnits + 1) * SizeUnit}, rs \in RecSizes :
          /\ ds \div rs <= MaxBlocks + 1
          /\ defs = [start |-> 0, record_size |-> rs, total_size |-> ds,
                  dev_size |-> ds, dev_ssize |-> 512, flags |-> RANDOMIO]
    /\ discarded_root = <<>>
    /\ allocated = 0
    /\ returned = {}
    /\ last = NoCall
    /\ Idle

SelUnchanged == UNCHANGED <<configured, defs, rec, repeat, i, err, stats, next_start, next_hop, stop,
                           fd_open, exit_status, ranges, lats, results, steps, writes,
                           ndiscards, failed, trimmed, stale, wall_time, nomem,
                           stop_req>>

\* a call that returns a block
SelCall ==
    /\ pc = "selector"
    /\ \E cand \in get_random_block(defs) :
       \E o \in guess_next_block(discarded_root, defs, cand, TRUE) :
          /\ ~o.hang
          /\ discarded_root' = o.tree
          /\ allocated' = allocated + o.alloc
          /\ returned' = returned \cup {o.ret}
          /\ last' = Call(o)
    /\ pc' = pc
    /\ SelUnchanged

\* a call in which malloc fails: -1 is returned
SelCallNoMem ==
    /\ pc = "selector"
    /\ \E cand \in get_random_block(defs) :
       \E o \in guess_next_block(discarded_root, defs, cand, FALSE) :
          /\ o.kind = "nomem"
          /\ last' = Call(o)
    /\ UNCHANGED <<pc, discarded_root, allocated, returned>>
    /\ SelUnchanged

\* a call that never returns
SelHang ==
    /\ pc = "selector"
    /\ \E cand \in get_random_block(defs) :
       \E o \in guess_next_block(discarded_root, defs, cand, TRUE) :
          /\ o.hang
          /\ last' = Call(o)
    /\ pc' = "hang"
    /\ UNCHANGED <<discarded_root, allocated, returned>>
    /\ SelUnchanged

SelNext == SelCall \/ SelCallNoMem \/ SelHang

SelSpec == SelInit /\ [][SelNext]_vars

\* the caller keeps calling, and malloc does not fail for ever
FairSelSpec == SelSpec /\ WF_vars(SelCall)

\* dev_size / record_size
NBlocks == defs.dev_size \div defs.record_size

---------------------------------------------------------------------------
(* C1: the in-order traversal of the tree yields extents with count >= 1,  *)
(* strictly ascending by start and separated by a strict gap:              *)
(* prev.start + prev.count < next.start for every consecutive pair.        *)
C1_StrictGap ==
    /\ \A k \in 1..Len(discarded_root) : discarded_root[k].count >= 1
    /\ \A k \in 1..(Len(discarded_root) - 1) :
          discarded_root[k].start + discarded_root[k].count < discarded_root[k + 1].start

\* a call extended an extent by the candidate equal to its end and merged it
\* with its right neighbour, leaving several extents
C1_Witness ==
    /\ pc = "selector"
    /\ last.kind = "extend" /\ last.merged
    /\ Len(discarded_root) >= 2

(* C2: the blocks covered by the extents are exactly the blocks returned   *)
(* since the tree was empty, and the counts sum to the number of distinct  *)
(* blocks returned.                                                        *)
C2_CoveredIsReturned ==
    pc \in {"selector", "hang"} =>
        /\ Covered(discarded_root) = returned
        /\ SumCounts(discarded_root) = Cardinality(returned)

C2_Witness ==
    /\ pc = "selector"
    /\ last.merged
    /\ Cardinality(returned) >= 3

(* C3: every block returned by guess_next_block is in [0, N), where        *)
(* N = dev_size / record_size.                                             *)
C3_ReturnedInBounds ==
    pc \in {"selector", "hang"} => \A b \in returned : 0 <= b /\ b < NBlocks

(* C4: if guess_next_block keeps being called on a tree that started       *)
(* empty, eventually every block of [0, N) has been returned.              *)
C4_Coverage == <>(\A b \in 0..(NBlocks - 1) : b \in returned)

C4_Witness ==
    /\ pc = "selector"
    /\ NBlocks >= 3
    /\ \A b \in 0..(NBlocks - 1) : b \in returned
    /\ last.restarts = 1

---------------------------------------------------------------------------
(* Claims about the test step, replay and the sweep *)

\* the sum of value * copies over a set of triples <<element, value, copies>>
RECURSIVE WeightedSum(_)
WeightedSum(T) ==
    IF T = {} THEN 0
    ELSE LET x == CHOOSE y \in T : TRUE
         IN  x[2] * x[3] + WeightedSum(T \ {x})

\* the sum of the lengths of the ranges discarded by the current step
SumOfLengths == WeightedSum({<<r, r.len, CopiesIn(r, ranges)>> : r \in BagToSet(ranges)})

\* the sum of the latencies measured by the current step
SumOfLatencies == WeightedSum({<<t, t, CopiesIn(t, lats)>> : t \in BagToSet(lats)})

(* C5: a test step with total_size >= record_size >= 1 discards ranges     *)
(* whose lengths sum to exactly total_size, and in sequential mode none of *)
(* them extends beyond start + total_size.                                 *)
C5_StepBoundary ==
    /\ pc = "report" => SumOfLengths = defs.total_size
    /\ (pc \in {"ioctl_loop", "report"} /\ ~IS_RANDOMIO(defs.flags)) =>
          \A r \in BagToSet(ranges) : r.off + r.len <= defs.start + defs.total_size

\* the record size of the step that prepare_by_tree replays
ReplayedRecordSize == steps[Len(steps)]

(* C6: prepare_by_tree makes exactly one write_data call per extent, in    *)
(* ascending order of start, each at byte offset start * record_size and   *)
(* writing exactly count * record_size bytes.                              *)
C6_ReplayWritesLedger ==
    (pc = "sweep" /\ writes.stage = "prepare_by_tree") =>
        writes.calls =
            [k \in 1..Len(discarded_root) |->
                [start |-> discarded_root[k].start * ReplayedRecordSize,
                 size  |-> discarded_root[k].count * ReplayedRecordSize,
                 bytes |-> discarded_root[k].count * ReplayedRecordSize,
                 ret   |-> 0]]

Least(S) == CHOOSE x \in S : \A y \in S : x <= y

Greatest(S) == CHOOSE x \in S : \A y \in S : x >= y

(* C7: a test step starts with fresh statistics (min INT_MAX, max 0, sum   *)
(* 0, count 0); while it runs and when it completes, count is the number   *)
(* of latencies measured by this step, sum their sum, min the smallest and *)
(* max the largest; the record printed holds these and avg = sum / count.  *)
C7_StatisticsFolding ==
    /\ pc \in {"ioctl_loop", "report"} =>
          /\ stats.count = BagCardinality(lats)
          /\ stats.sum = SumOfLatencies
          /\ IF lats = EmptyBag
             THEN stats.min = INT_MAX /\ stats.max = 0
             ELSE /\ stats.min = Least(BagToSet(lats))
                  /\ stats.max = Greatest(BagToSet(lats))
    /\ pc = "replay" =>
          LET r == results[Len(results)] IN
          /\ r.count = BagCardinality(lats)
          /\ r.sum = SumOfLatencies
          /\ r.min = Least(BagToSet(lats))
          /\ r.max = Greatest(BagToSet(lats))
          /\ r.avg = Quot(SumOfLatencies, BagCardinality(lats))

\* a later step of a sweep completed with latencies that differ
C7_Witness ==
    /\ pc = "replay"
    /\ Len(results) >= 2
    /\ results[Len(results)].count >= 2
    /\ results[Len(results)].min < results[Len(results)].max

\* the sweep ran to its end and no step failed
SweepCompleted == pc = "exit" /\ err = 0 /\ i > repeat

(* C8: with a record range start:end:step and no failing step the driver   *)
(* runs exactly ((end - start) / step) + 1 test steps, the k-th (from 0)   *)
(* with record size start + step * k; without a range it runs exactly one  *)
(* step with the configured record size; one record is printed per step.   *)
C8_SweepPlan ==
    SweepCompleted =>
        /\ IF rec.step # 0
           THEN steps = [k \in 1..(((rec.end - rec.start) \div rec.step) + 1) |->
                            rec.start + rec.step * (k - 1)]
           ELSE steps = <<configured>>
        /\ Len(results) = Len(steps)
        /\ \A k \in 1..Len(steps) : results[k].record_size = steps[k]

\* a sweep in random IO mode over a range that is not a multiple of its step
C8_Witness ==
    /\ SweepCompleted
    /\ IS_RANDOMIO(defs.flags)
    /\ rec.step # 0
    /\ (rec.end - rec.start) % rec.step # 0
    /\ Len(results) >= 2

(* C9: once a discard call of a test step failed, no further discard call  *)
(* is issued, no test step is started, no record is printed, and the       *)
(* process ends with failure status, the tree freed and the device closed. *)
C9_DiscardFailureFatal ==
    failed # <<>> =>
        /\ ndiscards = failed[1].ndiscards
        /\ Len(results) = failed[1].results
        /\ Len(steps) = failed[1].steps
        /\ Len(results) < Len(steps)
        /\ pc \in {"cleanup", "exit"}
        /\ pc = "exit" =>
              /\ exit_status = "EXIT_FAILURE"
              /\ discarded_root = <<>>
              /\ ~fd_open

\* a discard failed in random IO mode after others went through, with sweep
\* iterations still to come, and the process has ended
C9_Witness ==
    /\ failed # <<>>
    /\ pc = "exit"
    /\ i < repeat
    /\ IS_RANDOMIO(defs.flags)
    /\ BagCardinality(ranges) >= 2

(* C10: at the start of every test step, after main rounded and clamped    *)
(* total_size, start + total_size <= dev_size.                             *)
C10_SweepClamp ==
    pc = "test_step" => defs.start + defs.total_size <= defs.dev_size

---------------------------------------------------------------------------
(* C11: once the stop flag has been set from outside during a test step,   *)
(* no further discard call is issued and no further test step is started:  *)
(* the run goes on to its cleanup.                                         *)
C11_Cancellation ==
    stop_req # <<>> =>
        /\ ndiscards = stop_req[1].ndiscards
        /\ Len(steps) = stop_req[1].steps

(* C12: no entry that was allocated stays unfreed: none when a test step   *)
(* starts on the tree main has just set to empty in random IO mode, and    *)
(* none when the process has exited.                                       *)
C12_LedgerRelease ==
    /\ (pc = "test_step" /\ IS_RANDOMIO(defs.flags)) => allocated = 0
    /\ pc = "exit" => allocated = 0

\* two quotients of doubles with positive divisors are the same number
SameQuot(q, r) == q.num * r.den = r.num * q.den

(* C13: the throughput printed for a test step is total_size in megabytes  *)
(* divided by the wall time of the step, the time between the two          *)
(* gettimeofday calls of test_step around run_ioctl.                       *)
C13_ThroughputOverWallTime ==
    pc = "replay" =>
        SameQuot(results[Len(results)].throughput,
                 Quot(defs.total_size \div MiB, wall_time))

\* the granules of the region a test step may discard that lie on the device
Target ==
    IF IS_RANDOMIO(defs.flags)
    THEN DeviceGranules(defs)
    ELSE Granules(defs.start, defs.total_size) \cap DeviceGranules(defs)

(* C14: unless DISCARD2 is set, the whole target region (sequential mode)  *)
(* or the whole device (random IO mode) holds written data before the      *)
(* first discard of the first test step, and in sequential mode before the *)
(* first discard of every later step as well; in random IO mode the device *)
(* is not written as a whole in later iterations, and prepare_by_tree has  *)
(* run after every finished step before the next one starts.               *)
C14_PreparationOrdering ==
    ~IS_DISCARD2(defs.flags) =>
        /\ (/\ pc = "ioctl_loop"
            /\ ranges = EmptyBag
            /\ (~IS_RANDOMIO(defs.flags) \/ i = 1)) => Target \cap trimmed = {}
        /\ (/\ pc \in {"test_step", "ioctl_loop", "report"}
            /\ IS_RANDOMIO(defs.flags)
            /\ i > 1) => writes.stage # "prepare_device"
        /\ (/\ pc = "sweep"
            /\ IS_RANDOMIO(defs.flags)
            /\ Len(results) >= 1) => writes.stage = "prepare_by_tree"

(* C15: when a write of prepare_device or prepare_by_tree fails, whatever  *)
(* its errno, so that a write_data call wrote less than the chunks it was  *)
(* to write, the run is aborted: no test step follows and the process ends *)
(* with failure status.                                                    *)
C15_WriteFailureFatal ==
    \A k \in 1..Len(writes.calls) :
        writes.calls[k].bytes < Chunks(writes.calls[k].size) * ENT_SIZE =>
            /\ pc \in {"cleanup", "exit"}
            /\ err = -1
            /\ pc = "exit" => exit_status = "EXIT_FAILURE"

(* C16: when alloc_and_init fails in guess_next_block the tree is left as  *)
(* it was, -1 is returned, no discard is issued for the selection and no   *)
(* record is printed for the step, and the run ends through its cleanup:   *)
(* the tree freed, the device closed, failure status.                      *)
C16_AllocationFailure ==
    nomem # <<>> =>
        /\ last.kind = "nomem"
        /\ last.block = -1
        /\ ndiscards = nomem[1].ndiscards
        /\ Len(results) = nomem[1].results
        /\ err = -1
        /\ pc \in {"cleanup", "exit"}
        /\ pc = "cleanup" => discarded_root = nomem[1].tree
        /\ pc = "exit" =>
              /\ discarded_root = <<>>
              /\ ~fd_open
              /\ exit_status = "EXIT_FAILURE"

\* the allocation failed on a tree that held an extent, in a later step of
\* a sweep, and the process has ended
C16_Witness ==
    /\ nomem # <<>>
    /\ Len(nomem[1].tree) >= 1
    /\ nomem[1].results >= 1
    /\ pc = "exit"

(* C17: unless DISCARD2 is set, no test step discards a range that holds a *)
(* byte discarded before and not written since.                            *)
C17_NoRediscard ==
    ~IS_DISCARD2(defs.flags) => ~stale

\* crit_err() ended the process: the only exit that leaves the device open
CritErrExit == pc = "exit" /\ fd_open

\* prepare_by_tree has to refuse the tree: an entry of no bytes, or two
\* consecutive entries without a strict gap
Corrupted(t, d) ==
    \/ \E k \in 1..Len(t) : t[k].count * d.record_size = 0
    \/ \E k \in 1..(Len(t) - 1) : t[k].start + t[k].count >= t[k + 1].start

StepCalls == BagCardinality(ranges)

\* total_size / record_size rounded up
CallsDue == (defs.total_size + defs.record_size - 1) \div defs.record_size

(* C19: a test step on boundaries total_size >= record_size >= 1 in which  *)
(* no call fails ends after exactly ceil(total_size / record_size) discard *)
(* calls, in sequential and in random IO mode; a step with record_size < 1 *)
(* or total_size < record_size fails at once, with no discard issued and   *)
(* the statistics as they were initialized.                                *)
C19_StepCallCount ==
    /\ pc # "hang"
    /\ (pc = "ioctl_loop" /\ stop = 0) => StepCalls < CallsDue
    /\ (pc = "ioctl_loop" /\ stop # 0) => StepCalls = CallsDue
    /\ pc = "report" => StepCalls = CallsDue
    /\ (/\ pc = "cleanup"
        /\ Len(steps) > Len(results)
        /\ (defs.record_size < 1 \/ defs.total_size < defs.record_size)) =>
          /\ ranges = EmptyBag
          /\ stats = FreshStats
          /\ err = -1

\* a step in random IO mode has ended after several calls, the last of them
\* for a record cut short by the end of total_size
C19_Witness ==
    /\ pc = "report"
    /\ IS_RANDOMIO(defs.flags)
    /\ defs.total_size % defs.record_size # 0
    /\ StepCalls >= 2

(* C20: every range a test step hands to the discard ioctl ends at or      *)
(* before the end of the device: offset + length <= dev_size.              *)
C20_DiscardsInsideDevice ==
    \A r \in BagToSet(ranges) : r.off + r.len <= defs.dev_size

\* the tree is one extent that covers every block from 0 to
\* dev_size / record_size: on it the search of guess_next_block never ends
FullLedger ==
    /\ Len(discarded_root) = 1
    /\ discarded_root[1].start = 0
    /\ discarded_root[1].count > NBlocks

(* C21: within one test step in random IO mode no two calls of             *)
(* guess_next_block return the same block: the blocks returned are as many *)
(* as the calls, they are the blocks the tree covers, and the counts of    *)
(* the tree add up to the number of calls.                                 *)
C21_NoBlockTwice ==
    (IS_RANDOMIO(defs.flags) /\ pc \in {"ioctl_loop", "report", "replay"}) =>
        /\ Cardinality(returned) = StepCalls
        /\ Covered(discarded_root) = returned
        /\ SumCounts(discarded_root) = StepCalls

\* a step has made three calls, the last of which merged two extents
C21_Witness ==
    /\ IS_RANDOMIO(defs.flags)
    /\ pc = "ioctl_loop"
    /\ StepCalls >= 3
    /\ last.merged

(* C22: every guess_next_block call of a test step in random IO mode       *)
(* returns, after at most one restart of its search: the tree is never the *)
(* one extent covering every block 0..dev_size/record_size while the step  *)
(* has a call to make.                                                     *)
C22_SelectorTerminates ==
    IS_RANDOMIO(defs.flags) =>
        /\ pc # "hang"
        /\ last.restarts <= 1
        /\ (pc = "ioctl_loop" /\ stop = 0) => ~FullLedger

\* a call of a step restarted its search once and returned a block
C22_Witness ==
    /\ IS_RANDOMIO(defs.flags)
    /\ pc = "ioctl_loop"
    /\ last.restarts = 1
    /\ last.block >= 0

(* C23: crit_err is never called: every tree a test step leaves for        *)
(* prepare_by_tree has only entries of count * record_size # 0 bytes and a *)
(* strict gap between consecutive entries, and the process never exits     *)
(* with the device left open.                                              *)
C23_ReplayChecksNeverFire ==
    /\ ~CritErrExit
    /\ (pc = "replay" /\ IS_RANDOMIO(defs.flags)) =>
          ~Corrupted(discarded_root, defs)

\* prepare_by_tree has written the extents of a tree of two or more and
\* returned 0
C23_Witness ==
    /\ pc = "sweep"
    /\ writes.stage = "prepare_by_tree"
    /\ Len(writes.calls) >= 2
    /\ err = 0

============================================================================
